------------------------------ MODULE Spec2Model ------------------------------
(***************************************************************************)
(* The aws-py-appsync program (__main__.py): ten resource declarations and *)
(* two stack exports, applied by the orchestration engine, and the         *)
(* request/response mapping templates of its two resolvers.                *)
(*                                                                         *)
(*   Spec           the program registering its declarations in source     *)
(*                  order while the engine creates every registered        *)
(*                  resource whose referenced producers are created        *)
(*   SpecFair       Spec with weak fairness of its next-state relation     *)
(*   SpecTemplates  the resolver templates evaluated on bounded arguments  *)
(*                  and storage results                                    *)
(***************************************************************************)
EXTENDS Integers, Sequences, FiniteSets, TLC

VARIABLES
    pc,           \* index into Program of the next statement to execute
    registered,   \* resource -> its declaration, as handed to the engine
    created,      \* resources whose creation has completed
    attrs,        \* created resource -> the suffix the provider generated for it
    inputs,       \* created resource -> its referenced inputs, as resolved
    createCount,  \* resource -> number of times it has been created
    exported,     \* output name -> the value reference given to export()
    outputs,      \* output name -> resolved value
    reqIn,        \* last request-template evaluation: resolver and arguments
    reqOut,       \* ... and the request document it produced
    respIn,       \* last response-template evaluation: resolver and storage result
    respOut       \* ... and the decoded response

vars == <<pc, registered, created, attrs, inputs, createCount, exported, outputs,
          reqIn, reqOut, respIn, respOut>>

applyVars == <<pc, registered, created, attrs, inputs, createCount, exported, outputs>>
templateVars == <<reqIn, reqOut, respIn, respOut>>

-----------------------------------------------------------------------------
(* Bounds *)

NumGen == 2       \* distinct values the provider may generate for an attribute
NumIds == 2       \* distinct id arguments
NumNames == 2     \* distinct name arguments

GenPool == <<"a", "b", "c", "d">>
IdPool == <<"t1", "t2", "t3", "t4">>
NamePool == <<"Acme", "Bolt", "Cole", "Dune">>

Gen == {GenPool[i] : i \in 1..NumGen}
Ids == {IdPool[i] : i \in 1..NumIds}
Names == {NamePool[i] : i \in 1..NumNames}

-----------------------------------------------------------------------------
(* Values handed to a declaration: a reference to another resource's output *)
(* (table.arn) or a literal.                                                *)

Ref(res, attr) == [res |-> res, attr |-> attr, lit |-> ""]
Lit(s) == [res |-> "", attr |-> "", lit |-> s]
IsRef(v) == v.res # ""

-----------------------------------------------------------------------------
(* JSON documents: tokens, values, serialisation and parsing *)

LB == [k |-> "{", s |-> ""]
RB == [k |-> "}", s |-> ""]
COLON == [k |-> ":", s |-> ""]
COMMA == [k |-> ",", s |-> ""]
NULLT == [k |-> "null", s |-> ""]
STR(s) == [k |-> "str", s |-> s]
CALL(fn, arg) == [k |-> fn, s |-> arg]

StrV(s) == [t |-> "str", s |-> s, m |-> <<>>]
ObjV(m) == [t |-> "obj", s |-> "", m |-> m]
NullV == [t |-> "null", s |-> "", m |-> <<>>]
Member(key, v) == [k |-> key, v |-> v]

Keys(o) == {o.m[i].k : i \in 1..Len(o.m)}
HasField(o, key) == o.t = "obj" /\ key \in Keys(o)
Field(o, key) == o.m[CHOOSE i \in 1..Len(o.m) : o.m[i].k = key].v

RECURSIVE Serialize(_), SerializeMembers(_)
Serialize(v) ==
    CASE v.t = "str" -> <<STR(v.s)>>
      [] v.t = "null" -> <<NULLT>>
      [] OTHER -> <<LB>> \o SerializeMembers(v.m) \o <<RB>>
SerializeMembers(m) ==
    IF m = <<>> THEN <<>>
    ELSE <<STR(m[1].k), COLON>> \o Serialize(m[1].v)
         \o (IF Len(m) > 1 THEN <<COMMA>> \o SerializeMembers(Tail(m)) ELSE <<>>)

ParseFail == [ok |-> FALSE, v |-> NullV, rest |-> <<>>]

RECURSIVE ParseValue(_), ParseMembers(_, _)
ParseValue(toks) ==
    IF toks = <<>> THEN ParseFail
    ELSE CASE toks[1].k = "str" ->
                [ok |-> TRUE, v |-> StrV(toks[1].s), rest |-> Tail(toks)]
           [] toks[1].k = "null" ->
                [ok |-> TRUE, v |-> NullV, rest |-> Tail(toks)]
           [] toks[1].k = "{" ->
                IF Len(toks) >= 2 /\ toks[2].k = "}"
                THEN [ok |-> TRUE, v |-> ObjV(<<>>), rest |-> SubSeq(toks, 3, Len(toks))]
                ELSE ParseMembers(Tail(toks), <<>>)
           [] OTHER -> ParseFail
ParseMembers(toks, acc) ==
    IF Len(toks) < 3 THEN ParseFail
    ELSE IF toks[1].k # "str" \/ toks[2].k # ":" THEN ParseFail
    ELSE LET r == ParseValue(SubSeq(toks, 3, Len(toks)))
             acc2 == Append(acc, Member(toks[1].s, r.v))
         IN  IF ~r.ok \/ r.rest = <<>> THEN ParseFail
             ELSE IF r.rest[1].k = "}"
                  THEN [ok |-> TRUE, v |-> ObjV(acc2), rest |-> Tail(r.rest)]
             ELSE IF r.rest[1].k = ","
                  THEN ParseMembers(Tail(r.rest), acc2)
             ELSE ParseFail

Malformed == [ok |-> FALSE, doc |-> NullV]
ParseDoc(toks) ==
    LET r == ParseValue(toks)
    IN  IF r.ok /\ r.rest = <<>> THEN [ok |-> TRUE, doc |-> r.v] ELSE Malformed


-----------------------------------------------------------------------------
(* The resolver runtime's template utilities and template evaluation *)

\* $util.dynamodb.toDynamoDBJson(x) for a string x: the typed attribute {"S": x}
TypedString(x) == ObjV(<<Member("S", StrV(x))>>)
ToDynamoDBJson(x) == Serialize(TypedString(x))

\* $util.toJson(v): the JSON text of v
ToJson(v) == Serialize(v)

\* One template token evaluated in a context [args |-> [id, name], result |-> v]
Expand(tok, ctx) ==
    CASE tok.k = "toDynamoDBJson" -> ToDynamoDBJson(ctx.args[tok.s])
      [] tok.k = "toJson" -> ToJson(ctx[tok.s])
      [] OTHER -> <<tok>>

RECURSIVE Render(_, _)
Render(tpl, ctx) ==
    IF tpl = <<>> THEN <<>> ELSE Expand(tpl[1], ctx) \o Render(Tail(tpl), ctx)

-----------------------------------------------------------------------------
(* The declarations of __main__.py *)

table ==
    [urn |-> "tenants", kind |-> "aws:dynamodb:Table",
     refs |-> <<>>,
     lits |-> [hash_key |-> "id", attribute_name |-> "id", attribute_type |-> "S",
               read_capacity |-> 1, write_capacity |-> 1]]

role ==
    [urn |-> "iam-role", kind |-> "aws:iam:Role",
     refs |-> <<>>,
     lits |-> [Action |-> "sts:AssumeRole", Service |-> "appsync.amazonaws.com",
               Effect |-> "Allow"]]

\* Variant: the second statement scoped to the table like the first
PolicyStatementsScoped ==
    << [Action |-> <<"dynamodb:PutItem", "dynamodb:GetItem",
                     "dynamodb:DeleteItem", "dynamodb:UpdateItem">>,
        Effect |-> "Allow",
        Resource |-> <<Ref("table", "arn")>>],
       [Action |-> <<"dynamodb:*">>,
        Effect |-> "Allow",
        Resource |-> <<Ref("table", "arn")>>] >>

\* The two statements of the permission policy document
PolicyStatements ==
    << [Action |-> <<"dynamodb:PutItem", "dynamodb:GetItem",
                     "dynamodb:DeleteItem", "dynamodb:UpdateItem">>,
        Effect |-> "Allow",
        Resource |-> <<Ref("table", "arn")>>],
       [Action |-> <<"dynamodb:*">>,
        Effect |-> "Allow",
        Resource |-> <<Lit("*")>>] >>

\* Every value of the Resource lists of a statement list
ResourceValues(sts) ==
    UNION {{sts[i].Resource[j] : j \in 1..Len(sts[i].Resource)} : i \in 1..Len(sts)}

\* Output.json_dumps makes the document depend on every output found inside it
policy ==
    [urn |-> "iam-policy", kind |-> "aws:iam:Policy",
     refs |-> [v \in {x \in ResourceValues(PolicyStatements) : IsRef(x)} |-> v],
     lits |-> [statements |-> PolicyStatements]]

\* Variant: the policy ARN written out instead of taken from policy.arn
attachment_literal_arn ==
    [urn |-> "iam-policy-attachment", kind |-> "aws:iam:RolePolicyAttachment",
     refs |-> [role |-> Ref("role", "name")],
     lits |-> [policy_arn |-> "arn:aws:iam::000000000000:policy/iam-policy"]]

attachment ==
    [urn |-> "iam-policy-attachment", kind |-> "aws:iam:RolePolicyAttachment",
     refs |-> [role |-> Ref("role", "name"), policy_arn |-> Ref("policy", "arn")],
     lits |-> <<>>]

api ==
    [urn |-> "key", kind |-> "aws:appsync:GraphQLApi",
     refs |-> <<>>,
     lits |-> [authentication_type |-> "API_KEY",
               query |-> <<"getTenantById">>, mutation |-> <<"addTenant">>]]

\* Variant: the key declared with an expiry
api_key_expiring ==
    [urn |-> "key", kind |-> "aws:appsync:ApiKey",
     refs |-> [api_id |-> Ref("api", "id")],
     lits |-> [expires |-> "2030-01-01T00:00:00Z"]]

api_key ==
    [urn |-> "key", kind |-> "aws:appsync:ApiKey",
     refs |-> [api_id |-> Ref("api", "id")],
     lits |-> <<>>]

random_string ==
    [urn |-> "random-datasource-name", kind |-> "random:RandomString",
     refs |-> <<>>,
     lits |-> [length |-> 15, special |-> FALSE, number |-> FALSE]]

\* Variant: the service role ARN written out instead of taken from role.arn
data_source_literal_role ==
    [urn |-> "tenants-ds", kind |-> "aws:appsync:DataSource",
     refs |-> [name |-> Ref("random_string", "result"),
               api_id |-> Ref("api", "id"),
               table_name |-> Ref("table", "name")],
     lits |-> [type |-> "AMAZON_DYNAMODB",
               service_role_arn |-> "arn:aws:iam::000000000000:role/iam-role"]]

data_source ==
    [urn |-> "tenants-ds", kind |-> "aws:appsync:DataSource",
     refs |-> [name |-> Ref("random_string", "result"),
               api_id |-> Ref("api", "id"),
               table_name |-> Ref("table", "name"),
               service_role_arn |-> Ref("role", "arn")],
     lits |-> [type |-> "AMAZON_DYNAMODB"]]

get_request_template ==
    << LB, STR("version"), COLON, STR("2017-02-28"), COMMA,
           STR("operation"), COLON, STR("GetItem"), COMMA,
           STR("key"), COLON, LB,
               STR("id"), COLON, CALL("toDynamoDBJson", "id"), COMMA,
           RB,
       RB >>

\* Variant: the result wrapped in an envelope
get_response_template_wrapped ==
    << LB, STR("data"), COLON, CALL("toJson", "result"), RB >>

get_response_template == << CALL("toJson", "result") >>

get_resolver ==
    [urn |-> "get-resolver", kind |-> "aws:appsync:Resolver",
     refs |-> [api_id |-> Ref("api", "id"), data_source |-> Ref("data_source", "name")],
     lits |-> [type |-> "Query", field |-> "getTenantById",
               request_template |-> get_request_template,
               response_template |-> get_response_template]]

\* Variant: the name attribute encoded from the id argument
add_request_template_wrong_arg ==
    << LB, STR("version"), COLON, STR("2017-02-28"), COMMA,
           STR("operation"), COLON, STR("PutItem"), COMMA,
           STR("key"), COLON, LB,
               STR("id"), COLON, CALL("toDynamoDBJson", "id"),
           RB, COMMA,
           STR("attributeValues"), COLON, LB,
               STR("name"), COLON, CALL("toDynamoDBJson", "id"),
           RB,
       RB >>

add_request_template ==
    << LB, STR("version"), COLON, STR("2017-02-28"), COMMA,
           STR("operation"), COLON, STR("PutItem"), COMMA,
           STR("key"), COLON, LB,
               STR("id"), COLON, CALL("toDynamoDBJson", "id"),
           RB, COMMA,
           STR("attributeValues"), COLON, LB,
               STR("name"), COLON, CALL("toDynamoDBJson", "name"),
           RB,
       RB >>

add_response_template == << CALL("toJson", "result") >>

add_resolver ==
    [urn |-> "add-resolver", kind |-> "aws:appsync:Resolver",
     refs |-> [api_id |-> Ref("api", "id"), data_source |-> Ref("data_source", "name")],
     lits |-> [type |-> "Mutation", field |-> "addTenant",
               request_template |-> add_request_template,
               response_template |-> add_response_template]]

\* Variant: the add-resolver statement left out
ProgramWithoutAddResolver ==
    << "table", "role", "policy", "attachment", "api", "api_key",
       "random_string", "data_source", "get_resolver" >>

\* The resource statements of the program, in source order
Program ==
    << "table", "role", "policy", "attachment", "api", "api_key",
       "random_string", "data_source", "get_resolver", "add_resolver" >>

\* Variant: the key output exporting the API key's id instead of its value
ExportsKeyId ==
    << [name |-> "endpoint", ref |-> Ref("api", "uris.GRAPHQL")],
       [name |-> "key", ref |-> Ref("api_key", "id")] >>

\* The export() statements that end the program, in source order
Exports ==
    << [name |-> "endpoint", ref |-> Ref("api", "uris.GRAPHQL")],
       [name |-> "key", ref |-> Ref("api_key", "key")] >>

Resources == {Program[i] : i \in 1..Len(Program)}
Resolvers == {"get_resolver", "add_resolver"}

Decl(r) ==
    CASE r = "table" -> table
      [] r = "role" -> role
      [] r = "policy" -> policy
      [] r = "attachment" -> attachment
      [] r = "api" -> api
      [] r = "api_key" -> api_key
      [] r = "random_string" -> random_string
      [] r = "data_source" -> data_source
      [] r = "get_resolver" -> get_resolver
      [] r = "add_resolver" -> add_resolver

\* The producers a declaration references
Deps(d) == {d.refs[a].res : a \in DOMAIN d.refs}

-----------------------------------------------------------------------------
(* Apply: the program registers, the engine creates, outputs resolve *)

Finished == Len(Program) + Len(Exports) + 1

\* The value of output a of created resource r. A data source's name is the
\* name it was given.
AttrValue(r, a) ==
    IF r = "data_source" /\ a = "name"
    THEN inputs[r]["name"]
    ELSE [src |-> r, attr |-> a, gen |-> attrs[r]]

Resolve(v) ==
    IF IsRef(v) THEN AttrValue(v.res, v.attr) ELSE [src |-> "", attr |-> v.lit, gen |-> ""]

Init ==
    /\ pc = 1
    /\ registered = <<>>
    /\ created = {}
    /\ attrs = <<>>
    /\ inputs = <<>>
    /\ createCount = [r \in Resources |-> 0]
    /\ exported = <<>>
    /\ outputs = <<>>
    /\ reqIn = [resolver |-> "none", id |-> "", name |-> ""]
    /\ reqOut = Malformed
    /\ respIn = [resolver |-> "none", result |-> NullV]
    /\ respOut = Malformed

\* The program executes its next resource statement: the constructor hands the
\* declaration to the engine and returns at once.
Declare ==
    /\ pc <= Len(Program)
    /\ registered' = registered @@ (Program[pc] :> Decl(Program[pc]))
    /\ pc' = pc + 1
    /\ UNCHANGED <<created, attrs, inputs, createCount, exported, outputs>>
    /\ UNCHANGED templateVars

\* The program executes its next export() statement.
Export ==
    /\ pc > Len(Program)
    /\ pc < Finished
    /\ LET e == Exports[pc - Len(Program)]
       IN  exported' = exported @@ (e.name :> e.ref)
    /\ pc' = pc + 1
    /\ UNCHANGED <<registered, created, attrs, inputs, createCount, outputs>>
    /\ UNCHANGED templateVars

\* The engine creates a registered resource once every output it consumes is
\* known; the provider generates the new resource's own outputs.
Create(r, g) ==
    /\ r \in DOMAIN registered
    /\ r \notin created
    /\ Deps(registered[r]) \subseteq created
    /\ created' = created \cup {r}
    /\ attrs' = attrs @@ (r :> g)
    /\ inputs' = inputs @@
          (r :> [a \in DOMAIN registered[r].refs |-> Resolve(registered[r].refs[a])])
    /\ createCount' = [createCount EXCEPT ![r] = @ + 1]
    /\ UNCHANGED <<pc, registered, exported, outputs>>
    /\ UNCHANGED templateVars

\* An exported value resolves once its producer is created.
ResolveOutput(n) ==
    /\ n \in DOMAIN exported
    /\ n \notin DOMAIN outputs
    /\ exported[n].res \in created
    /\ outputs' = outputs @@ (n :> Resolve(exported[n]))
    /\ UNCHANGED <<pc, registered, created, attrs, inputs, createCount, exported>>
    /\ UNCHANGED templateVars

OutputNames == {Exports[i].name : i \in 1..Len(Exports)}

\* The resources some declaration or export reads an output of
Producing ==
    UNION {Deps(Decl(r)) : r \in Resources} \cup {Exports[i].ref.res : i \in 1..Len(Exports)}

\* What the provider may generate for r. The outputs of a resource nothing reads
\* are not told apart.
Generated(r) == IF r \in Producing THEN Gen ELSE {GenPool[1]}

Next ==
    \/ Declare
    \/ Export
    \/ \E r \in Resources : \E g \in Generated(r) : Create(r, g)
    \/ \E n \in OutputNames : ResolveOutput(n)

Spec == Init /\ [][Next]_vars

SpecFair == Spec /\ WF_vars(Next)

-----------------------------------------------------------------------------
(* Template evaluation on bounded arguments and storage results *)

Item(id, name) == ObjV(<<Member("id", StrV(id)), Member("name", StrV(name))>>)

\* What the storage operation can hand to a response template: no item, an
\* item with both attributes, an item without a name, an item whose name is null
StorageResults ==
    {NullV}
    \cup {Item(id, name) : id \in Ids, name \in Names}
    \cup {ObjV(<<Member("id", StrV(id))>>) : id \in Ids}
    \cup {ObjV(<<Member("id", StrV(id)), Member("name", NullV)>>) : id \in Ids}

\* addTenant(id, name) reaches add-resolver: its request template is evaluated
\* and the output read as a request document.
EvalAddRequest(id, name) ==
    /\ reqIn' = [resolver |-> "add_resolver", id |-> id, name |-> name]
    /\ reqOut' = ParseDoc(Render(add_resolver.lits.request_template,
                                 [args |-> [id |-> id, name |-> name], result |-> NullV]))
    /\ UNCHANGED <<respIn, respOut>>
    /\ UNCHANGED applyVars

\* getTenantById(id) reaches get-resolver.
EvalGetRequest(id) ==
    /\ reqIn' = [resolver |-> "get_resolver", id |-> id, name |-> ""]
    /\ reqOut' = ParseDoc(Render(get_resolver.lits.request_template,
                                 [args |-> [id |-> id], result |-> NullV]))
    /\ UNCHANGED <<respIn, respOut>>
    /\ UNCHANGED applyVars

\* A storage result reaches the response template of resolver r; the output is
\* decoded.
EvalResponse(r, res) ==
    /\ respIn' = [resolver |-> r, result |-> res]
    /\ respOut' = ParseDoc(Render(Decl(r).lits.response_template,
                                  [args |-> <<>>, result |-> res]))
    /\ UNCHANGED <<reqIn, reqOut>>
    /\ UNCHANGED applyVars

NextTemplates ==
    \/ \E id \in Ids, name \in Names : EvalAddRequest(id, name)
    \/ \E id \in Ids : EvalGetRequest(id)
    \/ \E r \in Resolvers, res \in StorageResults : EvalResponse(r, res)

SpecTemplates == Init /\ [][NextTemplates]_vars

-----------------------------------------------------------------------------
(* Properties *)

AllResources ==
    {"table", "role", "policy", "attachment", "api", "api_key",
     "random_string", "data_source", "get_resolver", "add_resolver"}

Before(producer, consumer) == consumer \in created => producer \in created

\* C1: a resource that consumes an output of another resource is created only
\* after that producer: the policy after the table; the attachment after the
\* role and the policy; the API key after the API; the data source after the
\* API, the table, the role and the random string; each resolver after the API
\* and the data source. No created resource references a producer that is not
\* created.
C1_ConsumersAfterProducers ==
    /\ Before("table", "policy")
    /\ Before("role", "attachment")
    /\ Before("policy", "attachment")
    /\ Before("api", "api_key")
    /\ Before("api", "data_source")
    /\ Before("table", "data_source")
    /\ Before("role", "data_source")
    /\ Before("random_string", "data_source")
    /\ \A r \in Resolvers : Before("api", r) /\ Before("data_source", r)
    /\ \A r \in created : Deps(registered[r]) \subseteq created

\* Every consumer named by C1 is created, while the program is still running.
C1_Witness ==
    /\ {"policy", "attachment", "api_key", "data_source"} \cup Resolvers \subseteq created
    /\ pc < Finished

\* C2 as stated: the table is created before the role, the role before the
\* policy and the attachment, the policy and the attachment before the data
\* source, and the data source before both resolvers.
C2_ChainOrder ==
    /\ Before("table", "role")
    /\ Before("role", "policy")
    /\ Before("role", "attachment")
    /\ Before("policy", "data_source")
    /\ Before("attachment", "data_source")
    /\ \A r \in Resolvers : Before("data_source", r) /\ Before("attachment", r)

\* C2 as amended: along the chain only the orders that value references induce
\* hold: the table before the policy; the role, the policy and so the table
\* before the attachment; the table and the role before the data source; the
\* data source, and so the table and the role, before both resolvers.
C2_ReferenceOrder ==
    /\ Before("table", "policy")
    /\ Before("role", "attachment")
    /\ Before("policy", "attachment")
    /\ Before("table", "attachment")
    /\ Before("table", "data_source")
    /\ Before("role", "data_source")
    /\ \A r \in Resolvers :
          Before("data_source", r) /\ Before("table", r) /\ Before("role", r)

\* Both resolvers exist, after the data source, the table and the role, while
\* neither the policy nor the attachment has been created.
C2_Witness ==
    /\ Resolvers \subseteq created
    /\ {"data_source", "table", "role"} \subseteq created
    /\ "policy" \notin created
    /\ "attachment" \notin created

\* The expected request of a resolver: version, operation and a key holding
\* exactly the attribute id in its string-typed encoding
TypedKey(id) == ObjV(<<Member("id", ObjV(<<Member("S", StrV(id))>>))>>)

RequestHeader(doc, operation, id) ==
    /\ doc.t = "obj"
    /\ {"version", "operation", "key"} \subseteq Keys(doc)
    /\ Field(doc, "version") = StrV("2017-02-28")
    /\ Field(doc, "operation") = StrV(operation)
    /\ Field(doc, "key") = TypedKey(id)

\* C3: for every (id, name) of addTenant the add-resolver request has version
\* "2017-02-28", operation "PutItem", a key holding exactly id in typed form
\* and attributeValues holding exactly name in typed form.
C3_AddRequest ==
    reqIn.resolver = "add_resolver" =>
        /\ reqOut.ok
        /\ RequestHeader(reqOut.doc, "PutItem", reqIn.id)
        /\ Keys(reqOut.doc) = {"version", "operation", "key", "attributeValues"}
        /\ Len(reqOut.doc.m) = 4
        /\ Field(reqOut.doc, "attributeValues") =
              ObjV(<<Member("name", ObjV(<<Member("S", StrV(reqIn.name))>>))>>)

\* addTenant(id = "t1", name = "Acme") produced a request.
C3_Witness ==
    /\ reqIn = [resolver |-> "add_resolver", id |-> "t1", name |-> "Acme"]
    /\ reqOut.ok
    /\ Field(Field(reqOut.doc, "key"), "id") = ObjV(<<Member("S", StrV("t1"))>>)

\* C4: for every id of getTenantById the get-resolver request has version
\* "2017-02-28", operation "GetItem", a key holding exactly id in typed form
\* and no attributeValues field.
C4_GetRequest ==
    reqIn.resolver = "get_resolver" =>
        /\ reqOut.ok
        /\ RequestHeader(reqOut.doc, "GetItem", reqIn.id)
        /\ "attributeValues" \notin Keys(reqOut.doc)

\* C5: the response template of each resolver is the identity on storage
\* results: decoding its output gives the result back unchanged.
C5_ResponseIdentity ==
    respIn.resolver \in Resolvers =>
        /\ respOut.ok
        /\ respOut.doc = respIn.result

\* The get-resolver response template was applied to the item (t1, Acme).
C5_Witness ==
    /\ respIn = [resolver |-> "get_resolver", result |-> Item("t1", "Acme")]
    /\ respOut.ok

\* The (type, field) pair a resolver declaration binds
Binding(d) == <<d.lits.type, d.lits.field>>

\* The resolvers handed to the engine bind pairwise distinct (type, field) pairs.
DistinctBindings ==
    \A r1, r2 \in Resolvers \cap DOMAIN registered :
        r1 # r2 => Binding(registered[r1]) # Binding(registered[r2])

\* The static check on a permission policy: the statements whose resource list
\* holds the wildcard, and the policy flagged when there is one
WildcardStatements(sts) ==
    {i \in 1..Len(sts) : \E j \in 1..Len(sts[i].Resource) : sts[i].Resource[j] = Lit("*")}
OverlyPermissive(sts) == WildcardStatements(sts) # {}

\* C7: the check flags the declared policy: of its two statements the one
\* scoped to the table ARN is not a wildcard-resource statement and the one
\* with Action dynamodb:* on Resource "*" is.
C7_PolicyFlagged ==
    "policy" \in DOMAIN registered =>
        LET sts == registered["policy"].lits.statements
        IN  /\ OverlyPermissive(sts)
            /\ Len(sts) = 2
            /\ WildcardStatements(sts) = {2}
            /\ sts[1].Resource = <<Ref("table", "arn")>>
            /\ sts[2].Action = <<"dynamodb:*">>

\* The policy has been handed to the engine and created with the table's ARN.
C7_Witness ==
    /\ "policy" \in created
    /\ inputs["policy"][Ref("table", "arn")] =
          [src |-> "table", attr |-> "arn", gen |-> attrs["table"]]

\* The static check on a credential: no expiry among its arguments
NonExpiring(d) == "expires" \notin (DOMAIN d.lits \cup DOMAIN d.refs)

\* C8: the declared API key is given only its parent API reference and no
\* expiry, so the check classifies it as non-expiring.
C8_KeyNonExpiring ==
    "api_key" \in DOMAIN registered =>
        /\ NonExpiring(registered["api_key"])
        /\ DOMAIN registered["api_key"].refs = {"api_id"}
        /\ registered["api_key"].refs["api_id"] = Ref("api", "id")
        /\ DOMAIN registered["api_key"].lits = {}

\* The API key has been handed to the engine and created under the API's id.
C8_Witness ==
    /\ "api_key" \in created
    /\ inputs["api_key"]["api_id"] = [src |-> "api", attr |-> "id", gen |-> attrs["api"]]

\* C9: the program exposes exactly the outputs endpoint and key; each is
\* unresolved until its producer (the API, the API key) is created, and once
\* resolved it is the API's GraphQL URI, respectively the API key's value.
C9_Outputs ==
    /\ DOMAIN exported \subseteq {"endpoint", "key"}
    /\ pc = Finished => DOMAIN exported = {"endpoint", "key"}
    /\ DOMAIN outputs \subseteq DOMAIN exported
    /\ "endpoint" \in DOMAIN outputs =>
          /\ "api" \in created
          /\ outputs["endpoint"] =
                [src |-> "api", attr |-> "uris.GRAPHQL", gen |-> attrs["api"]]
    /\ "key" \in DOMAIN outputs =>
          /\ "api_key" \in created
          /\ outputs["key"] = [src |-> "api_key", attr |-> "key", gen |-> attrs["api_key"]]

\* Both outputs are resolved.
C9_Witness ==
    /\ DOMAIN outputs = {"endpoint", "key"}
    /\ outputs["endpoint"].gen = attrs["api"]
    /\ outputs["key"].gen = attrs["api_key"]

\* The producers a resource reaches through at most n references
RECURSIVE Producers(_, _)
Producers(r, n) ==
    IF n = 0 THEN {}
    ELSE LET direct == Deps(Decl(r))
         IN  direct \cup UNION {Producers(q, n - 1) : q \in direct}

Acyclic == \A r \in AllResources : r \notin Producers(r, Cardinality(AllResources))

AllApplied ==
    /\ created = AllResources
    /\ \A r \in AllResources : createCount[r] = 1
    /\ DOMAIN outputs = {"endpoint", "key"}

\* C10: the reference graph of the ten resources is acyclic; under fair
\* scheduling every apply reaches, and stays in, the state where all ten
\* resources are created and both outputs are resolved, and no resource is
\* ever created twice.
C10_ApplyCompletes ==
    /\ Acyclic
    /\ [](\A r \in DOMAIN createCount : createCount[r] <= 1)
    /\ <>[]AllApplied

\* The apply is complete.
C10_Witness == AllApplied /\ pc = Finished

=============================================================================
